---- MODULE Spec2Model ----
(***************************************************************************)
(* A model of the PDB preparation scripts of BioM-AI:                      *)
(*   src/scripts/fixed_surf_pdb.py          (RecordCodec and Classifier)   *)
(*   src/scripts/merging.py                 (Merger)                       *)
(*   src/scripts/surface_vector_generator.py (SurfaceGeometry)             *)
(*                                                                         *)
(* A text line is a sequence of one-character strings, its line break      *)
(* included, exactly as Python's file iteration yields it.  A document is  *)
(* a sequence of lines; only its last line may lack the line break.        *)
(* Column numbers in the definitions are Python's 0-based offsets; the     *)
(* PDB column c of the prose is offset c - 1.                              *)
(***************************************************************************)
EXTENDS Integers, Sequences, FiniteSets, TLC

(***************************************************************************)
(* Python string and list primitives                                       *)
(***************************************************************************)
Min(a, b) == IF a < b THEN a ELSE b

Max(a, b) == IF a > b THEN a ELSE b

\* An absent keyword argument (None) and a present one.
None == <<>>

Some(v) == <<v>>

Spaces(n) == [k \in 1..n |-> " "]

NL == "\n"

\* s[a:b] of Python, for 0 <= a and 0 <= b: out-of-range offsets are clamped.
Slice(s, a, b) == SubSeq(s, a + 1, Min(b, Len(s)))

\* s[a:] of Python.
SliceFrom(s, a) == SubSeq(s, a + 1, Len(s))

\* s[a:b] = t on a Python list: the replaced range takes the length of t.
SetSlice(s, a, b, t) == Slice(s, 0, a) \o t \o SliceFrom(s, Min(b, Len(s)))

\* str.startswith(p)
StartsWith(s, p) == Len(s) >= Len(p) /\ SubSeq(s, 1, Len(p)) = p

IsSpace(c) == c \in {" ", NL, "\t", "\r"}

RECURSIVE LStrip(_)
LStrip(s) == IF s # <<>> /\ IsSpace(Head(s)) THEN LStrip(Tail(s)) ELSE s

RECURSIVE RStrip(_)
RStrip(s) ==
    IF s # <<>> /\ IsSpace(s[Len(s)]) THEN RStrip(SubSeq(s, 1, Len(s) - 1)) ELSE s

\* str.strip()
Strip(s) == RStrip(LStrip(s))

\* str.rstrip("\n")
RECURSIVE RStripNL(_)
RStripNL(s) ==
    IF s # <<>> /\ s[Len(s)] = NL THEN RStripNL(SubSeq(s, 1, Len(s) - 1)) ELSE s

\* f"{s:>w}": right-aligned in a field of w columns, never truncated.
RJust(s, w) == IF Len(s) >= w THEN s ELSE Spaces(w - Len(s)) \o s

Digits == <<"0", "1", "2", "3", "4", "5", "6", "7", "8", "9">>

IsDigit(c) == \E d \in 1..10 : Digits[d] = c

DigitValue(c) == (CHOOSE d \in 1..10 : Digits[d] = c) - 1

\* str(n) of a non-negative integer.
RECURSIVE NatToStr(_)
NatToStr(n) ==
    IF n < 10 THEN <<Digits[n + 1]>> ELSE NatToStr(n \div 10) \o <<Digits[(n % 10) + 1]>>

\* str(n) of an integer.
IntToStr(n) == IF n < 0 THEN <<"-">> \o NatToStr(0 - n) ELSE NatToStr(n)

\* Whether int(s) succeeds on a string: surrounding whitespace, one optional
\* sign, then digits, single underscores allowed between digits.
IsPyInt(s) ==
    LET t == Strip(s)
        u == IF t # <<>> /\ Head(t) \in {"+", "-"} THEN Tail(t) ELSE t
    IN  /\ u # <<>>
        /\ IsDigit(u[1])
        /\ IsDigit(u[Len(u)])
        /\ \A k \in 1..Len(u) : IsDigit(u[k]) \/ u[k] = "_"
        /\ \A k \in 1..(Len(u) - 1) : ~(u[k] = "_" /\ u[k + 1] = "_")

(***************************************************************************)
(* RecordCodec: src/scripts/fixed_surf_pdb.py                              *)
(***************************************************************************)
LineWidth == 80

ATOM == <<"A", "T", "O", "M", " ", " ">>

HETATM == <<"H", "E", "T", "A", "T", "M">>

is_atom_line(l) ==
    LET rec == Slice(l, 0, 6)
    IN  StartsWith(rec, ATOM) \/ StartsWith(rec, HETATM)

\* get_fields without the conversion of the serial number.
get_fields_raises_no_int(l) == IF Len(l) < 22 THEN "IndexError" ELSE "none"

\* The exception get_fields raises on a line, or "none": int(line[6:11]) is
\* evaluated before line[21] is indexed.
get_fields_raises(l) ==
    IF ~IsPyInt(Slice(l, 6, 11)) THEN "ValueError"
    ELSE IF Len(l) < 22 THEN "IndexError"
    ELSE "none"

\* The tuple get_fields returns where it raises nothing; the serial number is
\* kept as its text, no caller reads its value.
get_fields(l) ==
    [rec    |-> Slice(l, 0, 6),
     serial |-> Strip(Slice(l, 6, 11)),
     atom   |-> Slice(l, 12, 16),
     resn   |-> Strip(Slice(l, 17, 21)),
     chain  |-> Strip(<<l[22]>>),
     resi   |-> Strip(Slice(l, 22, 26))]

\* format_atom_line with chain written one column to the right.
format_atom_line_shifted(l, resn, chain, resi) ==
    LET s0 == RStripNL(l)
        s1 == IF Len(s0) < LineWidth THEN s0 \o Spaces(LineWidth - Len(s0)) ELSE s0
        s2 == IF resn # None
              THEN SetSlice(s1, 17, 21,
                            IF Len(resn[1]) = 3 THEN RJust(resn[1], 3) \o <<" ">>
                            ELSE RJust(resn[1], 4))
              ELSE s1
        s3 == IF chain # None /\ Len(chain[1]) = 1
              THEN [s2 EXCEPT ![23] = chain[1][1]] ELSE s2
        s4 == IF resi # None
              THEN SetSlice(s3, 22, 26, RJust(IntToStr(resi[1]), 4)) ELSE s3
    IN  s4 \o <<NL>>

\* resn, chain: None or Some(string); resi: None or Some(integer).
format_atom_line(l, resn, chain, resi) ==
    LET s0 == RStripNL(l)
        s1 == IF Len(s0) < LineWidth THEN s0 \o Spaces(LineWidth - Len(s0)) ELSE s0
        s2 == IF resn # None
              THEN SetSlice(s1, 17, 21,
                            IF Len(resn[1]) = 3 THEN RJust(resn[1], 3) \o <<" ">>
                            ELSE RJust(resn[1], 4))
              ELSE s1
        s3 == IF chain # None /\ Len(chain[1]) = 1
              THEN [s2 EXCEPT ![22] = chain[1][1]] ELSE s2
        s4 == IF resi # None
              THEN SetSlice(s3, 22, 26, RJust(IntToStr(resi[1]), 4)) ELSE s3
    IN  s4 \o <<NL>>

(***************************************************************************)
(* Classifier: src/scripts/fixed_surf_pdb.py, main                         *)
(***************************************************************************)
AA3 ==
    {<<"A", "L", "A">>, <<"A", "R", "G">>,
     <<"A", "S", "N">>, <<"A", "S", "P">>,
     <<"C", "Y", "S">>, <<"G", "L", "N">>,
     <<"G", "L", "U">>, <<"G", "L", "Y">>,
     <<"H", "I", "S">>, <<"I", "L", "E">>,
     <<"L", "E", "U">>, <<"L", "Y", "S">>,
     <<"M", "E", "T">>, <<"P", "H", "E">>,
     <<"P", "R", "O">>, <<"S", "E", "R">>,
     <<"T", "H", "R">>, <<"T", "R", "P">>,
     <<"T", "Y", "R">>, <<"V", "A", "L">>}

\* surf_set = set([r.strip() for r in args.surface_res])
surf_set(a) == {Strip(r) : r \in a.surface_res}

\* protein_chains = None if not args.protein_chains else set(...): the empty
\* set stands for None, both are false in "if protein_chains".
protein_chains(a) == a.protein_chains

is_protein(a, f) ==
    IF protein_chains(a) # {} THEN f.chain \in protein_chains(a) ELSE f.resn \in AA3

\* A surface record whose chain is left as it was read.
surface_line_keep_chain(a, l) == format_atom_line(l, None, None, None)

\* line = format_atom_line(line, chain=args.surface_chain)
surface_line(a, l) == format_atom_line(l, None, Some(a.surface_chain), None)

\* A two-way split: what is no protein goes with the non-atomic lines.
section_of_two_way(protein) == IF protein THEN "prot_lines" ELSE "other_lines"

\* (prot_lines if is_protein else prot_lines): the list a non-surface record
\* is appended to.
section_of(protein) == IF protein THEN "prot_lines" ELSE "prot_lines"

\* The renumbering key without the residue sequence.
renumber_key_no_resi(l) ==
    LET f == get_fields(l) IN <<f.resn, f.chain, <<>>>>

\* key = (resn, chain, resi) of a surface line
renumber_key(l) ==
    LET f == get_fields(l) IN <<f.resn, f.chain, f.resi>>

HeaderPrefixes ==
    {<<"R", "E", "M", "A", "R", "K">>,
     <<"C", "R", "Y", "S", "T", "1">>,
     <<"S", "C", "A", "L", "E">>,
     <<"O", "R", "I", "G", "X">>,
     <<"H", "E", "T", "N", "A", "M">>,
     <<"F", "O", "R", "M", "U", "L">>,
     <<"H", "E", "A", "D", "E", "R">>,
     <<"T", "I", "T", "L", "E">>}

\* A header filter that lets every non-atomic line through.
is_header_any(l) == TRUE

\* line.startswith(("REMARK", "CRYST1", ...))
is_header(l) == \E p \in HeaderPrefixes : StartsWith(l, p)

TerLine == <<"T", "E", "R", NL>>

EndLine == <<"E", "N", "D", NL>>

\* What "if lines: for l in lines: w.write(l); w.write("TER\n")" writes.
write_section(lines) == IF lines # <<>> THEN lines \o <<TerLine>> ELSE <<>>

(***************************************************************************)
(* Merger: src/scripts/merging.py, merge_pdb                               *)
(***************************************************************************)
\* line.startswith(("ATOM", "HETATM"))
keeps_slab_line(l) ==
    StartsWith(l, <<"A", "T", "O", "M">>) \/ StartsWith(l, HETATM)

\* A protein filter that forgets the SSBOND records.
keeps_protein_line_no_ssbond(l) ==
    StartsWith(l, <<"A", "T", "O", "M">>) \/ StartsWith(l, HETATM)

\* line.startswith(("ATOM", "HETATM", "SSBOND"))
keeps_protein_line(l) ==
    \/ StartsWith(l, <<"A", "T", "O", "M">>)
    \/ StartsWith(l, HETATM)
    \/ StartsWith(l, <<"S", "S", "B", "O", "N", "D">>)

(***************************************************************************)
(* SurfaceGeometry: src/scripts/surface_vector_generator.py                *)
(*                                                                         *)
(* A coordinate is an integer number of thousandths.  A vector the program *)
(* has divided by its norm is kept as an integer direction d, standing for *)
(* d / |d|; dividing the zero vector by its norm gives nan in every        *)
(* component.                                                              *)
(***************************************************************************)
\* Whether float(s) succeeds, for strings of digits, ".", "-", "+", spaces and
\* letters: an optional sign, digits with an optional point, at least one
\* digit.  (Exponents, "inf" and "nan" do not occur in the model's inputs.)
IsPyFloat(s) ==
    LET t == Strip(s)
        u == IF t # <<>> /\ Head(t) \in {"+", "-"} THEN Tail(t) ELSE t
    IN  /\ \E k \in 1..Len(u) : IsDigit(u[k])
        /\ \A k \in 1..Len(u) : IsDigit(u[k]) \/ u[k] = "."
        /\ Cardinality({k \in 1..Len(u) : u[k] = "."}) <= 1

RECURSIVE DigitsValue(_)
DigitsValue(u) ==
    IF u = <<>> THEN 0
    ELSE 10 * DigitsValue(SubSeq(u, 1, Len(u) - 1)) + DigitValue(u[Len(u)])

\* float(s) in thousandths, for a string with at most three decimals.
PyFloat(s) ==
    LET t == Strip(s)
        neg == t # <<>> /\ Head(t) = "-"
        u == IF t # <<>> /\ Head(t) \in {"+", "-"} THEN Tail(t) ELSE t
        dot == IF \E k \in 1..Len(u) : u[k] = "."
               THEN CHOOSE k \in 1..Len(u) : u[k] = "." ELSE Len(u) + 1
        whole == SubSeq(u, 1, dot - 1)
        frac == SubSeq(SubSeq(u, dot + 1, Len(u)) \o <<"0", "0", "0">>, 1, 3)
        v == 1000 * DigitsValue(whole) + DigitsValue(frac)
    IN  IF neg THEN 0 - v ELSE v

\* Lines 30-39 for one line: the point it adds to coords, if any.
line_coords(l) ==
    IF ~(StartsWith(l, <<"A", "T", "O", "M">>) \/ StartsWith(l, HETATM)) THEN <<>>
    ELSE IF /\ IsPyFloat(Slice(l, 30, 38))
            /\ IsPyFloat(Slice(l, 38, 46))
            /\ IsPyFloat(Slice(l, 46, 54))
         THEN <<<<PyFloat(Slice(l, 30, 38)), PyFloat(Slice(l, 38, 46)),
                  PyFloat(Slice(l, 46, 54))>>>>
         ELSE <<>>

\* read_surface_coords: the points of a document, in line order.
RECURSIVE read_surface_coords(_)
read_surface_coords(doc) ==
    IF doc = <<>> THEN <<>>
    ELSE read_surface_coords(SubSeq(doc, 1, Len(doc) - 1)) \o line_coords(doc[Len(doc)])

\* A test for no coordinates that never finds any missing.
coords_empty_never(c) == FALSE

\* len(coords) == 0
coords_empty(c) == Len(c) = 0

Zero3 == <<0, 0, 0>>

Dot(u, v) == u[1] * v[1] + u[2] * v[2] + u[3] * v[3]

Cross(u, v) ==
    <<u[2] * v[3] - u[3] * v[2], u[3] * v[1] - u[1] * v[3], u[1] * v[2] - u[2] * v[1]>>

Neg(u) == <<0 - u[1], 0 - u[2], 0 - u[3]>>

Sub(u, v) == <<u[1] - v[1], u[2] - v[2], u[3] - v[3]>>

Scale(k, u) == <<k * u[1], k * u[2], k * u[3]>>

\* The sum of the points c[i], i in the set I, added up by halves of I.
RECURSIVE SumOver(_, _)
SumOver(c, I) ==
    IF I = {} THEN Zero3
    ELSE LET lo == CHOOSE i \in I : \A j \in I : i <= j
             hi == CHOOSE i \in I : \A j \in I : i >= j
             mid == (lo + hi) \div 2
         IN  IF lo = hi THEN c[lo]
             ELSE LET a == SumOver(c, {i \in I : i <= mid})
                      b == SumOver(c, {i \in I : i > mid})
                  IN  <<a[1] + b[1], a[2] + b[2], a[3] + b[3]>>

\* A vector not yet computed, the vector of nans, and the unit vector d / |d|.
Unset == [nan |-> FALSE, d |-> Zero3]

NaNVec == [nan |-> TRUE, d |-> Zero3]

Unit(d) == [nan |-> FALSE, d |-> d]

\* v / np.linalg.norm(v)
Normalized(v) == IF v = Zero3 THEN NaNVec ELSE Unit(v)

\* np.cross(a, b) / its norm, of two normalized vectors
NormalizedCross(a, b) ==
    IF a.nan \/ b.nan THEN NaNVec ELSE Normalized(Cross(a.d, b.d))

\* coords.mean(axis=0): the sum of the points and their number.
mean(c) == [sum |-> SumOver(c, 1..Len(c)), n |-> Len(c)]

MinSample == 10

SampleFraction == 10

\* A sample of ten points whatever the number of points.
n_sample_of_fixed(c) == MinSample

\* n_sample = max(10, len(coords) // 10)
n_sample_of(c) == Max(MinSample, Len(c) \div SampleFraction)

\* The subsets of S with k elements.
RECURSIVE KSubsets(_, _)
KSubsets(S, k) ==
    IF k = 0 THEN {{}}
    ELSE IF Cardinality(S) < k THEN {}
    ELSE LET x == CHOOSE x \in S : TRUE
         IN  KSubsets(S \ {x}, k) \cup {T \cup {x} : T \in KSubsets(S \ {x}, k - 1)}

\* The sets of k indices that some ascending sort by z puts first: every
\* index below some height, and any of the indices at that height.
LowestSets(c, k) ==
    LET I == 1..Len(c)
        Below(t) == {i \in I : c[i][3] < c[t][3]}
        Level(t) == {i \in I : c[i][3] = c[t][3]}
    IN  IF k = 0 THEN {{}}
        ELSE UNION {{Below(t) \cup T :
                        T \in KSubsets(Level(t), k - Cardinality(Below(t)))} :
                    t \in {t \in I : /\ Cardinality(Below(t)) < k
                                     /\ k <= Cardinality(Below(t) \cup Level(t))}}

\* The sets of k indices that some ascending sort by z puts last.
HighestSets(c, k) ==
    LET I == 1..Len(c)
        Above(t) == {i \in I : c[i][3] > c[t][3]}
        Level(t) == {i \in I : c[i][3] = c[t][3]}
    IN  IF k = 0 THEN {{}}
        ELSE UNION {{Above(t) \cup T :
                        T \in KSubsets(Level(t), k - Cardinality(Above(t)))} :
                    t \in {t \in I : /\ Cardinality(Above(t)) < k
                                     /\ k <= Cardinality(Above(t) \cup Level(t))}}

\* Lines 83-89: z_sorted_indices[:n] and z_sorted_indices[-n:] for every order
\* np.argsort may give to points of equal z.  A slice of n > len(coords)
\* elements is the whole list.
bands(c, n) ==
    LET N == Len(c)
        b == Min(n, N)
    IN  IF 2 * b <= N
        THEN {bd \in {[bottom |-> L, top |-> H] :
                        L \in LowestSets(c, b), H \in HighestSets(c, b)} :
                bd.bottom \cap bd.top = {}}
        ELSE {[bottom |-> (1..N) \ lh[2], top |-> (1..N) \ lh[1]] :
                lh \in {lh \in LowestSets(c, N - b) \X HighestSets(c, N - b) :
                          lh[1] \cap lh[2] = {}}}

\* Lines 92-96: top_center - bottom_center, times the size of the bands.
band_difference(c, bd) == Sub(SumOver(c, bd.top), SumOver(c, bd.bottom))

\* Lines 49-53: the covariance matrix of the centered points, times
\* len(coords) * (len(coords) - 1), as its three rows:
\* len(coords) * sum(p p^T) - (sum p)(sum p)^T.
scatter(c) ==
    LET N == Len(c)
        m == mean(c).sum
        E(a, b) == LET RECURSIVE S(_)
                       S(i) == IF i = 0 THEN 0 ELSE S(i - 1) + c[i][a] * c[i][b]
                   IN  N * S(N) - m[a] * m[b]
    IN  <<<<E(1, 1), E(1, 2), E(1, 3)>>, <<E(2, 1), E(2, 2), E(2, 3)>>,
          <<E(3, 1), E(3, 2), E(3, 3)>>>>

MatVec(M, v) == <<Dot(M[1], v), Dot(M[2], v), Dot(M[3], v)>>

\* The integer directions eigenvectors are looked for in.
Directions == {v \in {-1, 0, 1} \X {-1, 0, 1} \X {-1, 0, 1} : v # Zero3}

IsEigenvector(M, v) == Cross(MatVec(M, v), v) = Zero3

\* Whether v is an eigenvector of the smallest eigenvalue of the symmetric
\* matrix M: with r the eigenvalue of v, M - r I has no negative eigenvalue,
\* that is (its determinant being 0) no negative principal minor of order 1
\* or 2.  A is (v.v) (M - r I).
IsSmallestEigenvector(M, v) ==
    /\ IsEigenvector(M, v)
    /\ LET r == Dot(MatVec(M, v), v)
           A == [i \in 1..3 |-> [j \in 1..3 |->
                    Dot(v, v) * M[i][j] - (IF i = j THEN r ELSE 0)]]
       IN  /\ \A i \in 1..3 : A[i][i] >= 0
           /\ \A i \in 1..3 : \A j \in 1..3 :
                 i < j => A[i][i] * A[j][j] - A[i][j] * A[j][i] >= 0

\* eigenvectors[:, 0] of np.linalg.eigh: a unit eigenvector of the smallest
\* eigenvalue, of either sign: any such eigenvector among Directions.  Where
\* none has integer components in Directions, any direction stands for it.
smallest_eigenvectors(M) ==
    LET smallest == {v \in Directions : IsSmallestEigenvector(M, v)}
    IN  IF smallest # {} THEN smallest ELSE Directions

\* Lines 60-61: the normal turned to point to positive z.
oriented(v) == IF v[3] < 0 THEN Neg(v) ELSE v

ThresholdNum == 9

ThresholdDen == 10

\* abs(normal[0]) < 0.9; a comparison with nan is false.
below_threshold(nv) ==
    /\ ~nv.nan
    /\ ThresholdDen * ThresholdDen * nv.d[1] * nv.d[1]
         < ThresholdNum * ThresholdNum * Dot(nv.d, nv.d)

\* The seed taken from the other pair of axes.
arbitrary_of_other_axes(nv) ==
    IF below_threshold(nv) THEN <<0, 1, 0>> ELSE <<0, 0, 1>>

\* Lines 114-117
arbitrary_of(nv) == IF below_threshold(nv) THEN <<1, 0, 0>> ELSE <<0, 1, 0>>

TangentDistance == 10

(***************************************************************************)
(* Input lines.  A record line is assembled from its fixed-width fields:   *)
(* record name 0:6, serial 6:11, atom name 12:16, residue name 17:21,      *)
(* chain 21, residue sequence 22:26, x 30:38, y 38:46, z 46:54, then       *)
(* occupancy, temperature factor and element.                              *)
(***************************************************************************)
\* Columns 26:80 of a record: insertion code, coordinates, occupancy,
\* temperature factor, element.
RecordTail(x, y, z) ==
    Spaces(4) \o RJust(x, 8) \o RJust(y, 8) \o RJust(z, 8)
        \o <<" ", " ", "1", ".", "0", "0">> \o <<" ", " ", "0", ".", "0", "0">>
        \o Spaces(10) \o <<"T", "I">> \o Spaces(2)

Record(rec, serial, atom, resn, chain, resi, tail) ==
    rec \o RJust(serial, 5) \o <<" ">> \o atom \o <<" ">> \o resn \o chain
        \o RJust(resi, 4) \o tail

Num0 == <<"0", ".", "0", "0", "0">>

Num1 == <<"1", ".", "0", "0", "0">>

NumBad == <<"1", ".", "0", "X", "0">>

AtomN == <<" ", "N", " ", " ">>

AtomTI == <<"T", "I", " ", " ">>

TI4 == <<"T", "I", "4">>

ALA == <<"A", "L", "A">>

HOH == <<"H", "O", "H">>

TailA == RecordTail(Num1, Num0, Num0)

\* A protein atom, chain A, 80 columns.
LineProtA ==
    Record(ATOM, <<"1">>, AtomN, ALA \o <<" ">>, <<"A">>, <<"1">>, TailA) \o <<NL>>

\* The same atom as the last line of a file that does not end in a line break.
LineProtANoNL ==
    Record(ATOM, <<"1">>, AtomN, ALA \o <<" ">>, <<"A">>, <<"1">>, TailA)

\* A water of chain B whose residue sequence field holds "1A": neither an
\* amino acid nor of chain A, and not an integer residue sequence.
LineWaterB ==
    Record(HETATM, <<"2">>, AtomN, HOH \o <<" ">>, <<"B">>, <<"1", "A">>, TailA)
        \o <<NL>>

\* Surface atoms: residue 12 in chain A (80 columns), residue 12 in chain B
\* (82 columns), residue 13 cut after its coordinates (54 columns).
LineSurf12A ==
    Record(HETATM, <<"3">>, AtomTI, TI4 \o <<" ">>, <<"A">>, <<"1", "2">>, TailA)
        \o <<NL>>

LineSurf12B ==
    Record(HETATM, <<"4">>, AtomTI, TI4 \o <<" ">>, <<"B">>, <<"1", "2">>, TailA)
        \o <<"+", "2">> \o <<NL>>

LineSurf13 ==
    Slice(Record(HETATM, <<"5">>, AtomTI, TI4 \o <<" ">>, <<" ">>, <<"1", "3">>, TailA),
          0, 54) \o <<NL>>

\* An atom whose serial field is not an integer.
LineBadSerial ==
    Record(ATOM, <<"A", "1">>, AtomN, ALA \o <<" ">>, <<"A">>, <<"2">>, TailA) \o <<NL>>

\* A record cut before its chain column.
LineCut == Slice(LineProtA, 0, 11) \o <<NL>>

LineRemark == <<"R", "E", "M", "A", "R", "K", " ", "x", NL>>

LineTer == <<"T", "E", "R", NL>>

LineEnd == <<"E", "N", "D", NL>>

Milli == <<"0", ".", "0", "0", "1">>

TwoMilli == <<"0", ".", "0", "0", "2">>

GeoRecord(x, y, z) ==
    Record(HETATM, <<"1">>, AtomTI, TI4 \o <<" ">>, <<"Z">>, <<"1">>,
           RecordTail(x, y, z)) \o <<NL>>

\* Surface atoms at (0, 0, 0), (0.001, 0, 0), (0, 0.001, 0.001) and
\* (0, 0, 0.002): two of them at the same height, two above.
LineGeoO == GeoRecord(Num0, Num0, Num0)

LineGeoX == GeoRecord(Milli, Num0, Num0)

LineGeoY == GeoRecord(Num0, Milli, Milli)

LineGeoZ == GeoRecord(Num0, Num0, TwoMilli)

\* A surface atom whose x field is no number.
LineGeoBad == GeoRecord(NumBad, Num0, Num0)

LineSsbond == <<"S", "S", "B", "O", "N", "D", " ", "1", NL>>

\* A line that starts with ATOM and is no ATOM record.
LineAtoms == <<"A", "T", "O", "M", "S", " ", "x", NL>>

(***************************************************************************)
(* State                                                                   *)
(***************************************************************************)
\* RecordCodec, called on its own: the arguments of format_atom_line, its
\* result, and whether it has returned.
VARIABLES fmt_line, fmt_resn, fmt_chain, fmt_resi, fmt_result, fmt_pc

codecVars == <<fmt_line, fmt_resn, fmt_chain, fmt_resi, fmt_result, fmt_pc>>

\* Classifier: the input document and the parsed arguments,
VARIABLES inp, args

\* the position in main (pc), the number of input lines consumed (pos), the
\* exception that ended the run (err),
VARIABLES pc, pos, err

\* main's lists and the locals of its renumbering loop,
VARIABLES prot_lines, surf_lines, other_lines, new_lines, resseq_map, next_resi

\* and the output file: whether open(args.out, "w") has run, and the strings
\* written to it, in order.
VARIABLES out_opened, out

clsVars ==
    <<inp, args, pc, pos, err, prot_lines, surf_lines, other_lines, new_lines,
      resseq_map, next_resi, out_opened, out>>

\* Merger: the two input files, the lists read from them, the merged list,
\* the strings written to the output file, and the position in merge_pdb.
VARIABLES slab_file, protein_file, slab_lines, m_prot_lines, merged, m_out, m_pc

mrgVars == <<slab_file, protein_file, slab_lines, m_prot_lines, merged, m_out, m_pc>>

\* SurfaceGeometry: the input document and the method; the position in main
\* and the exit status (-1 while running); the values main and the functions
\* it calls compute; whether the vector file was opened, and its lines.
VARIABLES pdb, method, g_pc, exit_code

VARIABLES coords, centroid, normal, n_sample, top_atoms, bottom_atoms

VARIABLES arbitrary, tangent1, tangent2, vec_opened, vec_out

geoVars ==
    <<pdb, method, g_pc, exit_code, coords, centroid, normal, n_sample, top_atoms,
      bottom_atoms, arbitrary, tangent1, tangent2, vec_opened, vec_out>>

vars == <<codecVars, clsVars, mrgVars, geoVars>>

\* What a run of one program leaves alone: the state of the others.
notCodec == <<clsVars, mrgVars, geoVars>>

notCls == <<codecVars, mrgVars, geoVars>>

notMrg == <<codecVars, clsVars, geoVars>>

notGeo == <<codecVars, clsVars, mrgVars>>

(***************************************************************************)
(* RecordCodec.Format, applied to one line with any choice of overrides    *)
(***************************************************************************)
CodecLines ==
    {LineProtA, LineProtANoNL, LineWaterB, LineSurf12A, LineSurf12B, LineSurf13,
     LineBadSerial, LineCut, LineRemark}

ResnOverrides == {None, Some(TI4), Some(<<"C", "A", "L", "2">>)}

ChainOverrides == {None, Some(<<"Z">>), Some(<<"Z", "Z">>), Some(<<>>), Some(<<"A">>)}

ResiOverrides == {None, Some(7), Some(10000)}

CodecIdle ==
    /\ fmt_line = <<>>
    /\ fmt_resn = None
    /\ fmt_chain = None
    /\ fmt_resi = None
    /\ fmt_result = <<>>
    /\ fmt_pc = "idle"

CodecInit ==
    /\ fmt_line \in CodecLines
    /\ fmt_resn \in ResnOverrides
    /\ fmt_chain \in ChainOverrides
    /\ fmt_resi \in ResiOverrides
    /\ fmt_result = <<>>
    /\ fmt_pc = "call"

ClsIdle ==
    /\ inp = <<>>
    /\ args = [surface_res |-> {}, surface_chain |-> <<>>, protein_chains |-> {},
               renumber_surface |-> FALSE, start_resseq |-> 0]
    /\ pc = "idle"
    /\ pos = 0
    /\ err = "none"
    /\ prot_lines = <<>>
    /\ surf_lines = <<>>
    /\ other_lines = <<>>
    /\ new_lines = <<>>
    /\ resseq_map = <<>>
    /\ next_resi = 0
    /\ out_opened = FALSE
    /\ out = <<>>

MrgIdle ==
    /\ slab_file = <<>>
    /\ protein_file = <<>>
    /\ slab_lines = <<>>
    /\ m_prot_lines = <<>>
    /\ merged = <<>>
    /\ m_out = <<>>
    /\ m_pc = "idle"

GeoUnset ==
    /\ exit_code = -1
    /\ coords = <<>>
    /\ centroid = [sum |-> Zero3, n |-> 0]
    /\ normal = Unset
    /\ n_sample = 0
    /\ top_atoms = {}
    /\ bottom_atoms = {}
    /\ arbitrary = Zero3
    /\ tangent1 = Unset
    /\ tangent2 = Unset
    /\ vec_opened = FALSE
    /\ vec_out = <<>>

GeoIdle ==
    /\ pdb = <<>>
    /\ method = "none"
    /\ g_pc = "idle"
    /\ GeoUnset

FormatCall ==
    /\ fmt_pc = "call"
    /\ fmt_result' = format_atom_line(fmt_line, fmt_resn, fmt_chain, fmt_resi)
    /\ fmt_pc' = "returned"
    /\ UNCHANGED <<fmt_line, fmt_resn, fmt_chain, fmt_resi>>
    /\ UNCHANGED notCodec


InitCodec == ClsIdle /\ MrgIdle /\ GeoIdle /\ CodecInit

NextCodec == FormatCall

SpecCodec == InitCodec /\ [][NextCodec]_vars

(***************************************************************************)
(* Classifier runs                                                         *)
(***************************************************************************)
MaxLines == 3

ClassifierLines ==
    {LineRemark, LineTer, LineEnd, LineProtA, LineWaterB, LineSurf12A, LineSurf12B,
     LineSurf13, LineBadSerial, LineCut}

\* Documents of at most n lines; a line without a line break can only be the
\* last one.
Documents(pool, last, n) ==
    UNION {[1..k -> pool] : k \in 0..n}
        \cup UNION {{Append(d, l) : d \in [1..(k - 1) -> pool], l \in last} : k \in 1..n}

ClassifierArgs ==
    {[surface_res |-> {TI4}, surface_chain |-> c, protein_chains |-> p,
      renumber_surface |-> r[1], start_resseq |-> r[2]] :
        c \in {<<"Z">>, <<"Z", "Z">>},
        p \in {{}, {<<"A">>}},
        r \in {<<FALSE, 1>>, <<TRUE, 1>>, <<TRUE, 9999>>}}

EmptyMap == [k \in {} |-> 0]

ClsInit ==
    /\ inp \in Documents(ClassifierLines, {LineProtANoNL}, MaxLines)
    /\ args \in ClassifierArgs
    /\ pc = "read"
    /\ pos = 0
    /\ err = "none"
    /\ prot_lines = <<>>
    /\ surf_lines = <<>>
    /\ other_lines = <<>>
    /\ new_lines = <<>>
    /\ resseq_map = EmptyMap
    /\ next_resi = 0
    /\ out_opened = FALSE
    /\ out = <<>>

\* The line the loop "for line in f" is at.
CurLine == inp[pos + 1]

readFrame ==
    <<inp, args, new_lines, resseq_map, next_resi, out_opened, out, notCls>>

\* Lines 76-79: a non-atomic line is kept aside.
ReadOther ==
    /\ pc = "read" /\ pos < Len(inp)
    /\ ~is_atom_line(CurLine)
    /\ other_lines' = Append(other_lines, CurLine)
    /\ pos' = pos + 1
    /\ UNCHANGED <<pc, err, prot_lines, surf_lines>>
    /\ UNCHANGED readFrame

\* Line 81: get_fields raises and nothing catches it.
ReadRaise ==
    /\ pc = "read" /\ pos < Len(inp)
    /\ is_atom_line(CurLine)
    /\ get_fields_raises(CurLine) # "none"
    /\ err' = get_fields_raises(CurLine)
    /\ pc' = "aborted"
    /\ UNCHANGED <<pos, prot_lines, surf_lines, other_lines>>
    /\ UNCHANGED readFrame

\* Lines 84-87: a surface record gets the surface chain.
ReadSurface ==
    /\ pc = "read" /\ pos < Len(inp)
    /\ is_atom_line(CurLine)
    /\ get_fields_raises(CurLine) = "none"
    /\ get_fields(CurLine).resn \in surf_set(args)
    /\ surf_lines' = Append(surf_lines, surface_line(args, CurLine))
    /\ pos' = pos + 1
    /\ UNCHANGED <<pc, err, prot_lines, other_lines>>
    /\ UNCHANGED readFrame

\* Lines 88-95: any other record.
ReadProtein ==
    /\ pc = "read" /\ pos < Len(inp)
    /\ is_atom_line(CurLine)
    /\ get_fields_raises(CurLine) = "none"
    /\ get_fields(CurLine).resn \notin surf_set(args)
    /\ LET target == section_of(is_protein(args, get_fields(CurLine)))
       IN  /\ prot_lines' =
                  IF target = "prot_lines" THEN Append(prot_lines, CurLine)
                  ELSE prot_lines
           /\ other_lines' =
                  IF target = "other_lines" THEN Append(other_lines, CurLine)
                  ELSE other_lines
    /\ pos' = pos + 1
    /\ UNCHANGED <<pc, err, surf_lines>>
    /\ UNCHANGED readFrame

\* The input is exhausted and closed.
ReadEOF ==
    /\ pc = "read" /\ pos = Len(inp)
    /\ pc' = "renumber_check"
    /\ UNCHANGED <<pos, err, prot_lines, surf_lines, other_lines>>
    /\ UNCHANGED readFrame

\* Lines 98-102: "if args.renumber_surface and surf_lines", taken.
RenumberBegin ==
    /\ pc = "renumber_check"
    /\ args.renumber_surface /\ surf_lines # <<>>
    /\ new_lines' = <<>>
    /\ resseq_map' = EmptyMap
    /\ next_resi' = args.start_resseq
    /\ pc' = "renumber"
    /\ UNCHANGED <<inp, args, pos, err, prot_lines, surf_lines, other_lines,
                   out_opened, out, notCls>>

\* Line 98, not taken.
RenumberSkip ==
    /\ pc = "renumber_check"
    /\ ~(args.renumber_surface /\ surf_lines # <<>>)
    /\ pc' = "open"
    /\ UNCHANGED <<inp, args, pos, err, prot_lines, surf_lines, other_lines,
                   new_lines, resseq_map, next_resi, out_opened, out, notCls>>

\* Lines 105-112: one pass of the loop over surf_lines.
RenumberLine ==
    /\ pc = "renumber"
    /\ Len(new_lines) < Len(surf_lines)
    /\ LET l == surf_lines[Len(new_lines) + 1]
           key == renumber_key(l)
           fresh == key \notin DOMAIN resseq_map
           m == IF fresh
                THEN [k \in DOMAIN resseq_map \cup {key} |->
                        IF k = key THEN next_resi ELSE resseq_map[k]]
                ELSE resseq_map
       IN  IF get_fields_raises(l) # "none"
           THEN /\ err' = get_fields_raises(l)
                /\ pc' = "aborted"
                /\ UNCHANGED <<new_lines, resseq_map, next_resi>>
           ELSE /\ resseq_map' = m
                /\ next_resi' = IF fresh THEN next_resi + 1 ELSE next_resi
                /\ new_lines' =
                       Append(new_lines, format_atom_line(l, None, None, Some(m[key])))
                /\ UNCHANGED <<pc, err>>
    /\ UNCHANGED <<inp, args, pos, prot_lines, surf_lines, other_lines,
                   out_opened, out, notCls>>

\* Line 113: surf_lines = new_lines
RenumberDone ==
    /\ pc = "renumber"
    /\ Len(new_lines) = Len(surf_lines)
    /\ surf_lines' = new_lines
    /\ pc' = "open"
    /\ UNCHANGED <<inp, args, pos, err, prot_lines, other_lines, new_lines,
                   resseq_map, next_resi, out_opened, out, notCls>>

writeFrame ==
    <<inp, args, pos, err, prot_lines, surf_lines, other_lines, new_lines,
      resseq_map, next_resi, notCls>>

\* Line 116: open(args.out, "w") creates or truncates the output file.
OpenOut ==
    /\ pc = "open"
    /\ out_opened' = TRUE
    /\ out' = <<>>
    /\ pc' = "headers"
    /\ UNCHANGED writeFrame

\* Lines 118-120
WriteHeaders ==
    /\ pc = "headers"
    /\ out' = out \o SelectSeq(other_lines, is_header)
    /\ pc' = "protein"
    /\ UNCHANGED out_opened
    /\ UNCHANGED writeFrame

\* Lines 121-124
WriteProtein ==
    /\ pc = "protein"
    /\ out' = out \o write_section(prot_lines)
    /\ pc' = "surface"
    /\ UNCHANGED out_opened
    /\ UNCHANGED writeFrame

\* Lines 125-128
WriteSurface ==
    /\ pc = "surface"
    /\ out' = out \o write_section(surf_lines)
    /\ pc' = "end"
    /\ UNCHANGED out_opened
    /\ UNCHANGED writeFrame

\* Line 129, and the file is closed.
WriteEnd ==
    /\ pc = "end"
    /\ out' = Append(out, EndLine)
    /\ pc' = "done"
    /\ UNCHANGED out_opened
    /\ UNCHANGED writeFrame

NextClassifier ==
    \/ ReadOther
    \/ ReadRaise
    \/ ReadSurface
    \/ ReadProtein
    \/ ReadEOF
    \/ RenumberBegin
    \/ RenumberSkip
    \/ RenumberLine
    \/ RenumberDone
    \/ OpenOut
    \/ WriteHeaders
    \/ WriteProtein
    \/ WriteSurface
    \/ WriteEnd

InitClassifier == CodecIdle /\ MrgIdle /\ GeoIdle /\ ClsInit

SpecClassifier == InitClassifier /\ [][NextClassifier]_vars

(***************************************************************************)
(* Merger runs                                                             *)
(***************************************************************************)
MaxMergeLines == 2

MergerLines == {LineProtA, LineSurf12A, LineSsbond, LineTer, LineEnd, LineAtoms}

MrgInit ==
    /\ slab_file \in Documents(MergerLines, {LineProtANoNL}, MaxMergeLines)
    /\ protein_file \in Documents(MergerLines, {LineProtANoNL}, MaxMergeLines)
    /\ slab_lines = <<>>
    /\ m_prot_lines = <<>>
    /\ merged = <<>>
    /\ m_out = <<>>
    /\ m_pc = "read"

\* Lines 7-11: both files are read whole.
MergeRead ==
    /\ m_pc = "read"
    /\ slab_lines' = slab_file
    /\ m_prot_lines' = protein_file
    /\ merged' = <<>>
    /\ m_pc' = "slab"
    /\ UNCHANGED <<slab_file, protein_file, m_out, notMrg>>

\* Lines 14-16
MergeSlab ==
    /\ m_pc = "slab"
    /\ merged' = merged \o SelectSeq(slab_lines, keeps_slab_line)
    /\ m_pc' = "protein"
    /\ UNCHANGED <<slab_file, protein_file, slab_lines, m_prot_lines, m_out, notMrg>>

\* Lines 19-21
MergeProtein ==
    /\ m_pc = "protein"
    /\ merged' = merged \o SelectSeq(m_prot_lines, keeps_protein_line)
    /\ m_pc' = "end"
    /\ UNCHANGED <<slab_file, protein_file, slab_lines, m_prot_lines, m_out, notMrg>>

\* Line 24
MergeEnd ==
    /\ m_pc = "end"
    /\ merged' = Append(merged, EndLine)
    /\ m_pc' = "write"
    /\ UNCHANGED <<slab_file, protein_file, slab_lines, m_prot_lines, m_out, notMrg>>

\* Lines 26-27: f.writelines(merged)
MergeWrite ==
    /\ m_pc = "write"
    /\ m_out' = merged
    /\ m_pc' = "done"
    /\ UNCHANGED <<slab_file, protein_file, slab_lines, m_prot_lines, merged, notMrg>>

InitMerger == CodecIdle /\ ClsIdle /\ GeoIdle /\ MrgInit

NextMerger ==
    \/ MergeRead
    \/ MergeSlab
    \/ MergeProtein
    \/ MergeEnd
    \/ MergeWrite

SpecMerger == InitMerger /\ [][NextMerger]_vars

(***************************************************************************)
(* SurfaceGeometry runs                                                    *)
(***************************************************************************)
MaxRepeat == 3

Repeat(l, n) == [k \in 1..n |-> l]

\* Documents of up to MaxRepeat atoms at each of four points, with or without
\* a header line and an atom of unreadable coordinates.
GeometryDocuments ==
    {Repeat(LineRemark, h) \o Repeat(LineGeoO, a) \o Repeat(LineGeoBad, e)
        \o Repeat(LineGeoX, b) \o Repeat(LineGeoY, c) \o Repeat(LineGeoZ, d) :
        h \in 0..1, e \in 0..1,
        a \in 0..MaxRepeat, b \in 0..MaxRepeat, c \in 0..MaxRepeat, d \in 0..MaxRepeat}

Methods == {"pca", "z-axis", "centroid"}

GeoInit ==
    /\ pdb \in GeometryDocuments
    /\ method \in Methods
    /\ g_pc = "read"
    /\ GeoUnset

geoInputs == <<pdb, method, notGeo>>

fitLocals == <<centroid, normal, n_sample, top_atoms, bottom_atoms>>

frameLocals == <<arbitrary, tangent1, tangent2>>

\* Line 170
GeoRead ==
    /\ g_pc = "read"
    /\ coords' = read_surface_coords(pdb)
    /\ g_pc' = "check"
    /\ UNCHANGED <<exit_code, fitLocals, frameLocals, vec_opened, vec_out, geoInputs>>

\* Lines 172-174: no coordinates, main returns 1.
GeoEmpty ==
    /\ g_pc = "check"
    /\ coords_empty(coords)
    /\ exit_code' = 1
    /\ g_pc' = "exit"
    /\ UNCHANGED <<coords, fitLocals, frameLocals, vec_opened, vec_out, geoInputs>>

\* Line 177: analyze_surface_geometry only prints.
GeoAnalyze ==
    /\ g_pc = "check"
    /\ ~coords_empty(coords)
    /\ g_pc' = "fit"
    /\ UNCHANGED <<exit_code, coords, fitLocals, frameLocals, vec_opened, vec_out,
                   geoInputs>>

fitFrame ==
    <<exit_code, coords, frameLocals, vec_opened, vec_out, geoInputs>>

\* Lines 182-183 and 43-66, two points or more.
FitPca ==
    /\ g_pc = "fit" /\ method = "pca"
    /\ Len(coords) >= 2
    /\ \E v \in smallest_eigenvectors(scatter(coords)) :
          normal' = Normalized(oriented(v))
    /\ centroid' = mean(coords)
    /\ g_pc' = "frame"
    /\ UNCHANGED <<n_sample, top_atoms, bottom_atoms>>
    /\ UNCHANGED fitFrame

\* One point: np.cov divides by len - 1 = 0 and the covariance is all nan.
\* np.linalg.eigh then either returns nan eigenvectors,
FitPcaNan ==
    /\ g_pc = "fit" /\ method = "pca"
    /\ Len(coords) < 2
    /\ normal' = NaNVec
    /\ centroid' = mean(coords)
    /\ g_pc' = "frame"
    /\ UNCHANGED <<n_sample, top_atoms, bottom_atoms>>
    /\ UNCHANGED fitFrame

\* or raises LinAlgError, which nothing catches.
FitPcaRaise ==
    /\ g_pc = "fit" /\ method = "pca"
    /\ Len(coords) < 2
    /\ exit_code' = 1
    /\ g_pc' = "aborted"
    /\ UNCHANGED <<coords, fitLocals, frameLocals, vec_opened, vec_out, geoInputs>>

\* Lines 185-186 and 68-74
FitZAxis ==
    /\ g_pc = "fit" /\ method = "z-axis"
    /\ centroid' = mean(coords)
    /\ normal' = Unit(<<0, 0, 1>>)
    /\ g_pc' = "frame"
    /\ UNCHANGED <<n_sample, top_atoms, bottom_atoms>>
    /\ UNCHANGED fitFrame

\* Lines 188-189 and 76-98
FitCentroid ==
    /\ g_pc = "fit" /\ method = "centroid"
    /\ centroid' = mean(coords)
    /\ n_sample' = n_sample_of(coords)
    /\ \E bd \in bands(coords, n_sample_of(coords)) :
          /\ top_atoms' = bd.top
          /\ bottom_atoms' = bd.bottom
          /\ normal' = Normalized(band_difference(coords, bd))
    /\ g_pc' = "frame"
    /\ UNCHANGED fitFrame

\* Lines 110-130 of generate_surface_vectors_file
BuildFrame ==
    /\ g_pc = "frame"
    /\ arbitrary' = arbitrary_of(normal)
    /\ tangent1' = NormalizedCross(normal, Unit(arbitrary_of(normal)))
    /\ tangent2' = NormalizedCross(normal,
                                   NormalizedCross(normal, Unit(arbitrary_of(normal))))
    /\ g_pc' = "write"
    /\ UNCHANGED <<exit_code, coords, fitLocals, vec_opened, vec_out, geoInputs>>

\* Lines 132-136: the three points, each the centroid moved by a distance
\* along a vector.
WriteVectors ==
    /\ g_pc = "write"
    /\ vec_opened' = TRUE
    /\ vec_out' = <<[origin |-> centroid, distance |-> 0, along |-> Unset],
                    [origin |-> centroid, distance |-> TangentDistance, along |-> tangent1],
                    [origin |-> centroid, distance |-> TangentDistance, along |-> tangent2]>>
    /\ g_pc' = "return"
    /\ UNCHANGED <<exit_code, coords, fitLocals, frameLocals, geoInputs>>

\* Line 198
GeoReturn ==
    /\ g_pc = "return"
    /\ exit_code' = 0
    /\ g_pc' = "exit"
    /\ UNCHANGED <<coords, fitLocals, frameLocals, vec_opened, vec_out, geoInputs>>

InitGeometry == CodecIdle /\ ClsIdle /\ MrgIdle /\ GeoInit

NextGeometry ==
    \/ GeoRead
    \/ GeoEmpty
    \/ GeoAnalyze
    \/ FitPca
    \/ FitPcaNan
    \/ FitPcaRaise
    \/ FitZAxis
    \/ FitCentroid
    \/ BuildFrame
    \/ WriteVectors
    \/ GeoReturn

SpecGeometry == InitGeometry /\ [][NextGeometry]_vars

(***************************************************************************)
(* SurfaceGeometry runs of the centroid method on larger documents         *)
(***************************************************************************)
MaxPoints == 110

\* A surface atom on the z axis, k thousandths above the origin (k < 1000).
LineGeoAt(k) ==
    GeoRecord(Num0, Num0,
              <<"0", ".">> \o (IF k < 10 THEN <<"0", "0">> ELSE IF k < 100 THEN <<"0">> ELSE <<>>)
                  \o NatToStr(k))

\* The heights of n atoms in file order: rising, falling, and rising in
\* pairs of equal height.
Heights(n) ==
    {[i \in 1..n |-> i], [i \in 1..n |-> n + 1 - i], [i \in 1..n |-> (i + 1) \div 2]}

\* Documents of up to MaxPoints atoms.
BandDocuments ==
    UNION {{[i \in 1..n |-> LineGeoAt(h[i])] : h \in Heights(n)} : n \in 0..MaxPoints}

BandsInit ==
    /\ pdb \in BandDocuments
    /\ method = "centroid"
    /\ g_pc = "read"
    /\ GeoUnset

InitBands == CodecIdle /\ ClsIdle /\ MrgIdle /\ BandsInit

\* The steps of main that a run with --method centroid can take.
NextBands ==
    \/ GeoRead
    \/ GeoEmpty
    \/ GeoAnalyze
    \/ FitCentroid
    \/ BuildFrame
    \/ WriteVectors
    \/ GeoReturn

SpecBands == InitBands /\ [][NextBands]_vars

(***************************************************************************)
(* Claims                                                                  *)
(***************************************************************************)
\* The input line without its line break, padded with spaces to 80 columns.
Padded(l) ==
    LET s == IF l # <<>> /\ l[Len(l)] = NL THEN SubSeq(l, 1, Len(l) - 1) ELSE l
    IN  IF Len(s) < 80 THEN s \o [k \in 1..(80 - Len(s)) |-> " "] ELSE s

\* C1: for an ATOM/HETATM line of at most 80 columns, format_atom_line
\* returns 80 columns and a line break; with no override they are the padded
\* input, and with only a chain override only column 22 differs from the
\* padded input (serial, atom name, residue name, residue sequence and
\* coordinates are the input's bytes) and holds the one-character chain.
C1_ColumnPreservation ==
    (/\ fmt_pc = "returned"
     /\ is_atom_line(fmt_line)
     /\ Len(RStripNL(fmt_line)) <= 80
     /\ fmt_resn = None
     /\ fmt_resi = None)
    => /\ Len(fmt_result) = 81
       /\ fmt_result[81] = NL
       /\ fmt_chain = None => fmt_result = Padded(fmt_line) \o <<NL>>
       /\ \A k \in 1..80 : k # 22 => fmt_result[k] = Padded(fmt_line)[k]
       /\ (fmt_chain # None /\ Len(fmt_chain[1]) = 1) => fmt_result[22] = fmt_chain[1][1]
       /\ (fmt_chain # None /\ Len(fmt_chain[1]) # 1)
            => fmt_result[22] = Padded(fmt_line)[22]

\* C1 witness: a 54-column record was padded and its chain column rewritten.
C1_Witness ==
    /\ fmt_pc = "returned"
    /\ fmt_line = LineSurf13
    /\ fmt_resn = None
    /\ fmt_resi = None
    /\ fmt_chain = Some(<<"Z">>)
    /\ fmt_result[22] = "Z"
    /\ fmt_line[22] = " "
    /\ Len(fmt_result) = 81

(***************************************************************************)
(* Claims about the Classifier.  They read records by PDB column numbers   *)
(* (1-based, inclusive), not through the program's own parser.             *)
(***************************************************************************)
Cols(l, a, b) == SubSeq(l, a, IF b < Len(l) THEN b ELSE Len(l))

ResNameOf(l) == Strip(Cols(l, 18, 21))

SerialOf(l) == Cols(l, 7, 11)

ResSeqOf(l) == Cols(l, 23, 26)

IsRecord(l) == Cols(l, 1, 6) \in {ATOM, HETATM}

IsSurfaceRecord(l) == IsRecord(l) /\ ResNameOf(l) \in args.surface_res

IsOtherRecord(l) == IsRecord(l) /\ ResNameOf(l) \notin args.surface_res

\* The (residue name, chain id, residue sequence) triple of a surface line.
Triple(l) == <<ResNameOf(l), Strip(Cols(l, 22, 22)), Strip(ResSeqOf(l))>>

\* The first surface line that carries the triple of line a.
FirstSeen(a) == CHOOSE b \in 1..a :
    /\ Triple(surf_lines[b]) = Triple(surf_lines[a])
    /\ \A c \in 1..(b - 1) : Triple(surf_lines[c]) # Triple(surf_lines[a])

\* k, where the triple of line a is the k-th distinct triple in first-seen order.
Rank(a) == Cardinality({Triple(surf_lines[b]) : b \in 1..FirstSeen(a)})

\* The decimal text of n, right-aligned in four columns.
NumberText(n) == RJust(IntToStr(n), 4)

\* C2: while renumbering, every renumbered surface line carries, from column
\* 23 on, the number start + k - 1 of its triple, the k-th distinct (residue
\* name, chain id, original residue sequence) triple in first-seen order over
\* the surface section: lines of one triple get one number, and the numbers
\* of new triples increase by one from the start value.  The chain id of a
\* triple is the one the line has in the surface section.
C2_RenumberingConsistency ==
    pc = "renumber"
    => \A a \in 1..Len(new_lines) :
          LET n == args.start_resseq + Rank(a) - 1
          IN  /\ Cols(new_lines[a], 23, 22 + Len(NumberText(n))) = NumberText(n)
              /\ Triple(surf_lines[a]) \in DOMAIN resseq_map
              /\ resseq_map[Triple(surf_lines[a])] = n
              /\ \A b \in 1..Len(new_lines) :
                    Triple(surf_lines[a]) = Triple(surf_lines[b])
                    => ResSeqOf(new_lines[a]) = ResSeqOf(new_lines[b])

\* C2 witness: two TI4 atoms of original residue 12 got 1, a TI4 atom of
\* original residue 13 got 2.
C2_Witness ==
    /\ pc = "renumber"
    /\ args.start_resseq = 1
    /\ Len(new_lines) = 3
    /\ Strip(ResSeqOf(surf_lines[1])) = <<"1", "2">>
    /\ Strip(ResSeqOf(surf_lines[2])) = <<"1", "2">>
    /\ Strip(ResSeqOf(surf_lines[3])) = <<"1", "3">>
    /\ ResSeqOf(new_lines[1]) = <<" ", " ", " ", "1">>
    /\ ResSeqOf(new_lines[2]) = <<" ", " ", " ", "1">>
    /\ ResSeqOf(new_lines[3]) = <<" ", " ", " ", "2">>

IsAllowedHeader(l) == ~IsRecord(l) /\ \E p \in HeaderPrefixes : Cols(l, 1, Len(p)) = p

CountOf(seq, Test(_)) == Len(SelectSeq(seq, Test))

IsTer(l) == Cols(l, 1, 3) = <<"T", "E", "R">>

IsEnd(l) == Cols(l, 1, 3) = <<"E", "N", "D">>

OutSurfaceSection ==
    LET records == SelectSeq(out, IsRecord)
    IN  SubSeq(records, Len(prot_lines) + 1, Len(records))

\* C4 as stated: in a finished run every record with a surface residue name
\* lies in the surface section and its column 22 is the configured surface
\* chain id, whatever that value is.
C4_AsStated ==
    pc = "done"
    => /\ \A k \in 1..Len(prot_lines) : ~IsSurfaceRecord(prot_lines[k])
       /\ \A k \in 1..Len(OutSurfaceSection) :
             <<OutSurfaceSection[k][22]>> = args.surface_chain

\* C4, amended: in a finished run every record with a surface residue name
\* lies in the surface section; its column 22 is the configured surface chain
\* id when that id is one character, and the input's column 22 otherwise.
C4_SurfaceChain ==
    pc = "done"
    => LET surfIn == SelectSeq(inp, IsSurfaceRecord)
       IN  /\ \A k \in 1..Len(prot_lines) : ~IsSurfaceRecord(prot_lines[k])
           /\ Len(OutSurfaceSection) = Len(surfIn)
           /\ \A k \in 1..Len(OutSurfaceSection) :
                 /\ IsSurfaceRecord(OutSurfaceSection[k])
                 /\ Len(args.surface_chain) = 1
                      => <<OutSurfaceSection[k][22]>> = args.surface_chain
                 /\ Len(args.surface_chain) # 1
                      => OutSurfaceSection[k][22] = surfIn[k][22]

\* C4 witness: a surface record read with chain A was written with chain Z.
C4_Witness ==
    /\ pc = "done"
    /\ args.surface_chain = <<"Z">>
    /\ \E k \in 1..Len(OutSurfaceSection) :
          /\ OutSurfaceSection[k][22] = "Z"
          /\ SelectSeq(inp, IsSurfaceRecord)[k][22] = "A"

HasBadSerial(l) == IsRecord(l) /\ ~IsPyInt(SerialOf(l))

HasBadResSeq(l) == IsRecord(l) /\ ~IsPyInt(ResSeqOf(l))

\* C7 as stated: a run whose input holds a record with a serial or a residue
\* sequence number that is not an integer does not finish: it aborts.
C7_AsStated ==
    pc = "done"
    => \A k \in 1..Len(inp) : ~HasBadSerial(inp[k]) /\ ~HasBadResSeq(inp[k])

\* C7, amended: once reading has stopped, a run whose input holds a record
\* with a serial that is not an integer has aborted, at that record with a
\* parse failure (ValueError) unless an earlier record ended the run; an
\* aborted run never opened the output file; and the output file is opened
\* only after every input line was parsed and classified.
C7_AbortBeforeOutput ==
    /\ pc = "aborted" => ~out_opened /\ out = <<>> /\ err # "none"
    /\ out_opened
         => /\ pos = Len(inp)
            /\ Len(prot_lines) + Len(surf_lines) + Len(other_lines) = Len(inp)
            /\ \A k \in 1..Len(inp) : ~HasBadSerial(inp[k])
    /\ pc # "read"
         => \A k \in 1..Len(inp) :
               HasBadSerial(inp[k])
               => /\ pc = "aborted"
                  /\ pos < k
                  /\ pos + 1 = k => err = "ValueError"

\* C7 witness: a run aborted on a serial after it had classified a record,
\* and no output file was opened.
C7_Witness ==
    /\ pc = "aborted"
    /\ err = "ValueError"
    /\ Len(prot_lines) + Len(surf_lines) >= 1
    /\ HasBadSerial(inp[pos + 1])
    /\ ~out_opened

C10_AsStated ==
    pc = "renumber"
    => \A a \in 1..Len(new_lines) :
          Len(surf_lines[a]) = 81
          => /\ Len(new_lines[a]) = 81
             /\ \A k \in (1..22) \cup (27..81) : new_lines[a][k] = surf_lines[a][k]
             /\ ResSeqOf(new_lines[a]) = NumberText(resseq_map[Triple(surf_lines[a])])

(***************************************************************************)
(* Claims about the Merger                                                 *)
(***************************************************************************)
BeginsAtom(l) == Cols(l, 1, 4) = <<"A", "T", "O", "M">> \/ Cols(l, 1, 6) = HETATM

BeginsAtomOrBond(l) ==
    BeginsAtom(l) \/ Cols(l, 1, 6) = <<"S", "S", "B", "O", "N", "D">>

IsDecimal(f) ==
    LET t == Strip(f)
    IN  /\ t # <<>>
        /\ \A k \in 1..Len(t) : t[k] \in {"0", "1", "2", "3", "4", "5", "6", "7", "8", "9", ".", "-"}

YieldsPoint(l) ==
    /\ BeginsAtom(l)
    /\ IsDecimal(Cols(l, 31, 38)) /\ IsDecimal(Cols(l, 39, 46)) /\ IsDecimal(Cols(l, 47, 54))

\* C6: lines without readable coordinates are skipped, not fatal; and when no
\* point was extracted the run does nothing but exit with status 1: no plane
\* is fitted and the vector file is never opened.
C6_EmptyIsHardError ==
    g_pc \notin {"idle", "read"}
    => /\ Len(coords) = CountOf(pdb, YieldsPoint)
       /\ Len(coords) = 0
            => /\ g_pc \in {"check", "exit"}
               /\ g_pc = "exit" => exit_code = 1
               /\ normal = Unset /\ centroid.n = 0
               /\ ~vec_opened /\ vec_out = <<>>

\* C6 witness: the only atom of the document had unreadable coordinates; the
\* run ended with status 1 and no vector file.
C6_Witness ==
    /\ g_pc = "exit"
    /\ exit_code = 1
    /\ \E k \in 1..Len(pdb) : pdb[k] = LineGeoBad
    /\ coords = <<>>
    /\ ~vec_opened

IsUnitVector(v) == ~v.nan /\ v.d # Zero3

\* C8 as stated: for every non-empty point set and every method, the frame
\* that is written has a unit normal and unit tangents, each orthogonal to
\* the other two; no vector was zero before it was normalized.
C8_AsStated ==
    g_pc = "write"
    => /\ IsUnitVector(normal) /\ IsUnitVector(tangent1) /\ IsUnitVector(tangent2)
       /\ Dot(tangent1.d, normal.d) = 0
       /\ Dot(tangent2.d, normal.d) = 0
       /\ Dot(tangent2.d, tangent1.d) = 0

\* The frame of generate_surface_vectors_file has been computed.
FrameBuilt == g_pc \in {"write", "return"} \/ (g_pc = "exit" /\ exit_code = 0)

\* Whether the first component of the unit vector d / |d| is 0.9 or more in
\* magnitude: 100 d1^2 >= 81 |d|^2.
FirstComponentLarge(d) == 100 * d[1] * d[1] >= 81 * (d[1] * d[1] + d[2] * d[2] + d[3] * d[3])

IsParallel(a, b) ==
    /\ a[2] * b[3] = a[3] * b[2]
    /\ a[3] * b[1] = a[1] * b[3]
    /\ a[1] * b[2] = a[2] * b[1]

\* C11 as stated: for a unit normal the seed is (0, 0, 1) when the magnitude
\* of the normal's first component is at least 0.9 and (0, 1, 0) otherwise,
\* and it is not parallel to the normal.
C11_AsStated ==
    (FrameBuilt /\ IsUnitVector(normal))
    => /\ arbitrary = (IF FirstComponentLarge(normal.d) THEN <<0, 0, 1>> ELSE <<0, 1, 0>>)
       /\ ~IsParallel(arbitrary, normal.d)

\* C11, amended: for a unit normal the seed is (0, 1, 0) when the magnitude
\* of the normal's first component is at least 0.9 and (1, 0, 0) otherwise,
\* and it is not parallel to the normal.
C11_SeedChoice ==
    (FrameBuilt /\ IsUnitVector(normal))
    => /\ arbitrary = (IF FirstComponentLarge(normal.d) THEN <<0, 1, 0>> ELSE <<1, 0, 0>>)
       /\ ~IsParallel(arbitrary, normal.d)

\* C11 witness: a normal along x, fitted by pca, got the seed (0, 1, 0).
C11_Witness ==
    /\ g_pc = "write"
    /\ method = "pca"
    /\ normal = Unit(<<1, 0, 0>>)
    /\ arbitrary = <<0, 1, 0>>
    /\ tangent1 = Unit(<<0, 0, 1>>)

\* The centroid method has taken its bands.
BandsTaken ==
    /\ method = "centroid"
    /\ g_pc \in {"frame", "write", "return"} \/ (g_pc = "exit" /\ exit_code = 0)

\* The bands are taken from the ends of the points sorted by elevation.
BandsAreExtremal ==
    LET I == 1..Len(coords)
    IN  /\ top_atoms \subseteq I /\ bottom_atoms \subseteq I
        /\ \A i \in top_atoms : \A j \in I \ top_atoms : coords[i][3] >= coords[j][3]
        /\ \A i \in bottom_atoms : \A j \in I \ bottom_atoms : coords[i][3] <= coords[j][3]

\* C12 as stated: on N points each band holds max(10, floor(N / 10)) points
\* when N >= 100 and all N points when N < 100.
C12_AsStated ==
    BandsTaken
    => LET N == Len(coords)
           size == IF N >= 100 THEN (IF N \div 10 > 10 THEN N \div 10 ELSE 10) ELSE N
       IN  Cardinality(top_atoms) = size /\ Cardinality(bottom_atoms) = size

\* C12, amended: on N points each band holds max(10, floor(N / 10)) points
\* when N >= 10, which is 10 points for N < 100, and all N points when
\* N < 10; the bands are the highest and the lowest points.
C12_BandSizes ==
    BandsTaken
    => LET N == Len(coords)
           size == IF N >= 10 THEN (IF N \div 10 > 10 THEN N \div 10 ELSE 10) ELSE N
       IN  /\ Cardinality(top_atoms) = size /\ Cardinality(bottom_atoms) = size
           /\ BandsAreExtremal

\* C12 witness: of 110 points the bands hold 11 each, and share none.
C12_Witness ==
    /\ BandsTaken
    /\ Len(coords) = 110
    /\ Cardinality(top_atoms) = 11
    /\ Cardinality(bottom_atoms) = 11
    /\ top_atoms \cap bottom_atoms = {}

====
